---- MODULE Spec2Model ----
(***************************************************************************)
(* Model of speeds_and_feeds.py: the module-level script that, for every   *)
(* machine, opens one PDF, and for every tool draws one page holding one   *)
(* stepover-versus-axial-depth line per work material.                     *)
(*                                                                         *)
(* The script computes with floating-point pint quantities.  The model     *)
(* uses fixed-point integers, one unit per kind of quantity:               *)
(*                                                                         *)
(*   diameter                          1/16  inch                          *)
(*   SFM                               1/10  ft/min                        *)
(*   unit_power                        1/10  hp / (inch^3/min)             *)
(*   horsepower                        1/10  hp                            *)
(*   target_spindle_horsepower         1e-5  hp                            *)
(*   SFM (the local of the loop body)  1/20  ft/min (2.5 x SFM is exact)   *)
(*   speeds, vari_speed_max, speed     1/40  rev/min                       *)
(*   feed_max                          1e-3  inch/min                      *)
(*   feed                              1/1280000 inch/min                  *)
(*   MRR                               1e-4  inch^3/min                    *)
(*   MRR / feed                        1e-5  inch^2                        *)
(*   doc_axial                         1e-2  inch                          *)
(*   doc_radial                        1e-4  inch                          *)
(*   stepover                          1/10  percent                       *)
(*                                                                         *)
(* Table speeds are multiples of 0.1 rev/min, that is of 4 speed units.    *)
(* The ideal spindle speed SFM / (pi * diameter) is irrational; the model  *)
(* places it exactly between the multiples of 0.05 rev/min that enclose    *)
(* it (an odd number of speed units), deciding every comparison with pi    *)
(* exactly, so that the ideal speed lies on the same side of every table   *)
(* speed, and of every midpoint of two table speeds, as in the script.     *)
(* The feed computed from an ideal speed that the envelope left unchanged   *)
(* is irrational as well and is placed the same way, between the multiples *)
(* of 1/640000 inch/min that enclose it; the feed computed from a table    *)
(* speed is exact.  A machine name is the sequence of its pieces: each     *)
(* space and each underscore is a piece, and so is each run of other       *)
(* characters between them.                                                *)
(* The other divisions truncate toward zero where the script rounds to the *)
(* nearest double.  The unit conversions pint performs (12 inch per foot,  *)
(* the scale factors above) are written out in the operators that need     *)
(* them.  A quotient is zero in the script only when its dividend is zero, *)
(* so a non-zero quotient below one unit is one unit (with its sign) in    *)
(* the model, and the feed product is kept exact: a quantity is zero in    *)
(* the model exactly when it is zero in the script.                        *)
(* An integer zero has no sign; where the script's result depends on the   *)
(* sign of a floating-point zero, the sign is computed from the operands.  *)
(* Inputs are taken from the range in which every value fits 32 bits;     *)
(* outside it the evaluation stops with an overflow error.                 *)
(***************************************************************************)
EXTENDS Integers, Sequences, FiniteSets, TLC

VARIABLES
    pc,          \* position of the script
    err,         \* name of the exception that ended the script, or "none"
    machines,    \* the machines table
    tools,       \* the tools table
    materials,   \* the materials table (OrderedDict, in insertion order)
    mi,          \* index of `machine` in machines
    ti,          \* index of `tool` in tools
    ki,          \* index of (material_name, material_properties) in materials
    doc_axial,   \* X axis values of the current figure
    SFM,         \* module-level locals of the material loop body
    ideal_speed, \* parameter `speed` of the last closest_machine_speed call
    speed,
    feed,
    MRR,
    stepover,
    fig,         \* lines plotted on the current figure
    pdf,         \* pages saved to the current machine's PDF
    files        \* the PDF files written so far, by file name

vars == <<pc, err, machines, tools, materials, mi, ti, ki, doc_axial, SFM,
          ideal_speed, speed, feed, MRR, stepover, fig, pdf, files>>

(***************************************************************************)
(* Arithmetic helpers.                                                     *)
(***************************************************************************)
Abs(x) == IF x < 0 THEN -x ELSE x

\* A magnitude that is not zero is at least one unit.
at_least_one_unit(a, q) == IF a # 0 /\ q = 0 THEN 1 ELSE q

\* Quotient a / b (b # 0), truncated toward zero but never to zero.
Quot(a, b) ==
    LET q == at_least_one_unit(a, Abs(a) \div Abs(b))
    IN  IF (a >= 0) = (b > 0) THEN q ELSE -q

\* a * m / b (m > 0, b # 0) as Quot(a * m, b), without forming a * m.
MulQuot(a, m, b) ==
    LET q == at_least_one_unit(a, (Abs(a) \div Abs(b)) * m
                                    + ((Abs(a) % Abs(b)) * m) \div Abs(b))
    IN  IF (a >= 0) = (b > 0) THEN q ELSE -q

\* Smallest integer >= a / b (b > 0).
CeilDiv(a, b) == -((-a) \div b)

\* floor(a * 10^k / b) for a >= 0, b > 0, by long division, one decimal
\* digit at a time (the product a * 10^k itself may not fit).
RECURSIVE long_division(_, _, _, _)
long_division(quotient, remainder, b, k) ==
    IF k = 0 THEN quotient
    ELSE long_division(quotient * 10 + (remainder * 10) \div b,
                       (remainder * 10) % b, b, k - 1)

\* a * 10^k / b (b # 0), truncated toward zero but never to zero.
ScaledQuot(a, k, b) ==
    LET q == at_least_one_unit(
                 a, long_division(Abs(a) \div Abs(b), Abs(a) % Abs(b), Abs(b), k))
    IN  IF (a >= 0) = (b > 0) THEN q ELSE -q

\* a / b >= c / d for a, c >= 0 and b, d > 0, by the Euclidean algorithm:
\* compare the integer parts, then the reciprocals of the fractional parts
\* (no product of two operands is formed).
RECURSIVE fraction_at_least(_, _, _, _)
fraction_at_least(a, b, c, d) ==
    IF a \div b # c \div d THEN a \div b > c \div d
    ELSE IF c % d = 0 THEN TRUE
    ELSE IF a % b = 0 THEN FALSE
    ELSE fraction_at_least(d, c % d, b, a % b)

\* A convergent of pi from above: 411557987 / 131002976.  The convergent
\* before it in the continued fraction of pi, 1068966896 / 340262731, is
\* below pi, so every fraction strictly between pi and PI_UPPER has a
\* denominator of at least 131002976 + 340262731.
PI_UPPER_NUM == 411557987
PI_UPPER_DEN == 131002976

\* b / a > pi, exactly, for b >= 0 and 0 < a < 471265707.
exceeds_pi(b, a) == fraction_at_least(b, a, PI_UPPER_NUM, PI_UPPER_DEN)

\* floor(p / (pi * q)) for p >= 0, q > 0: the largest f with f * pi * q <= p,
\* searched upward from f, a value not above it.
RECURSIVE floor_over_pi(_, _, _)
floor_over_pi(p, q, f) ==
    IF exceeds_pi(p, (f + 1) * q) THEN floor_over_pi(p, q, f + 1) ELSE f

\* floor(p / (pi * q)) for p >= 0, q > 0; the search starts from the floor
\* computed with 355/113 for pi, which is above pi.
floor_of_quotient_by_pi(p, q) ==
    floor_over_pi(p, q, (p \div (355 * q)) * 113
                            + ((p % (355 * q)) * 113) \div (355 * q))

\* Elements of the numpy arrays: division of a scalar by an array yields
\* inf / -inf / nan at a zero divisor instead of raising.
Finite(n) == [cls |-> "finite", val |-> n]
PosInf == [cls |-> "inf", val |-> 0]
NegInf == [cls |-> "-inf", val |-> 0]
NaN == [cls |-> "nan", val |-> 0]

\* IEEE ordering a >= b on array elements (false whenever a nan is involved).
Geq(a, b) ==
    CASE a.cls = "nan" \/ b.cls = "nan" -> FALSE
      [] a.cls = "inf" -> TRUE
      [] b.cls = "-inf" -> TRUE
      [] a.cls = "-inf" -> FALSE
      [] b.cls = "inf" -> FALSE
      [] OTHER -> a.val >= b.val

(***************************************************************************)
(* closest_machine_speed                                                   *)
(***************************************************************************)
\* The scan of min(iterable, key=...): the first element is the candidate,
\* a later element replaces it only when its key is strictly smaller.
RECURSIVE min_scan(_, _, _, _)
min_scan(seq, ideal, i, best) ==
    IF i > Len(seq) THEN best
    ELSE min_scan(seq, ideal, i + 1,
                  IF Abs(seq[i] - ideal) < Abs(best - ideal) THEN seq[i] ELSE best)

\* Variants of the scan: the key without abs(), and a scan in which a later
\* element also replaces the candidate on an equal key.
RECURSIVE min_scan_signed(_, _, _, _)
min_scan_signed(seq, ideal, i, best) ==
    IF i > Len(seq) THEN best
    ELSE min_scan_signed(seq, ideal, i + 1,
                         IF seq[i] - ideal < best - ideal THEN seq[i] ELSE best)

RECURSIVE min_scan_last(_, _, _, _)
min_scan_last(seq, ideal, i, best) ==
    IF i > Len(seq) THEN best
    ELSE min_scan_last(seq, ideal, i + 1,
                       IF Abs(seq[i] - ideal) <= Abs(best - ideal) THEN seq[i] ELSE best)

min_by_distance_signed(seq, ideal) == min_scan_signed(seq, ideal, 2, seq[1])

min_by_distance_last(seq, ideal) == min_scan_last(seq, ideal, 2, seq[1])

min_by_distance(seq, ideal) == min_scan(seq, ideal, 2, seq[1])

\* min() of an empty iterable raises ValueError.
closest_machine_speed_raises(machine) ==
    "speeds" \in DOMAIN machine /\ machine.speeds = <<>>

\* Variant with the ceiling comparison inverted.
closest_machine_speed_inverted(ideal, machine) ==
    IF "speeds" \in DOMAIN machine
    THEN min_by_distance(machine.speeds, ideal)
    ELSE IF ideal < machine.vari_speed_max
         THEN machine.vari_speed_max
         ELSE ideal

closest_machine_speed(ideal, machine) ==
    IF "speeds" \in DOMAIN machine
    THEN min_by_distance(machine.speeds, ideal)
    ELSE IF ideal > machine.vari_speed_max
         THEN machine.vari_speed_max
         ELSE ideal

(***************************************************************************)
(* Program constants.                                                      *)
(***************************************************************************)
\* MAX_DOC_AXIAL = 1.5, in tenths of a tool diameter.
MAX_DOC_AXIAL == 15

\* machine_horsepower_multiplier = 0.5 and machine_efficiency = 0.75, in
\* hundredths.
machine_horsepower_multiplier == 50
machine_efficiency == 75

\* The carbide surface-speed factor of `SFM *= 2.5`, in tenths.
CARBIDE_SFM_FACTOR == 25

\* The chip-load constant 0.005 of the feed formula, in thousandths.
CHIP_LOAD == 5

(***************************************************************************)
(* The tables as shipped.                                                  *)
(***************************************************************************)
Tool(d, n, m) == [diameter |-> d, tooth_count |-> n, material |-> m]

ShippedTools == <<
    Tool(32, 1, "HSS/Cobalt"),
    Tool(12, 4, "HSS/Cobalt"),
    Tool(10, 4, "HSS/Cobalt"),
    Tool(8, 4, "HSS/Cobalt"),
    Tool(8, 4, "Carbide"),
    Tool(6, 4, "Carbide"),
    Tool(6, 2, "HSS/Cobalt"),
    Tool(6, 2, "Carbide"),
    Tool(3, 2, "Carbide") >>

Material(name, sfm, up) == [name |-> name, SFM |-> sfm, unit_power |-> up]

ShippedMaterials == <<
    Material("Aluminum", 3000, 4),
    Material("Mild Steel", 1000, 18),
    Material("4130 Steel", 800, 22),
    Material("4140 Steel, annealed", 600, 23),
    Material("4140 Steel, hardened", 300, 26),
    Material("304 Stainless", 500, 18) >>

VariSpeedMachine(name, hp, fmax, smax) ==
    [name |-> name, horsepower |-> hp, feed_max |-> fmax, vari_speed_max |-> smax]

SteppedMachine(name, hp, fmax, speeds) ==
    [name |-> name, horsepower |-> hp, feed_max |-> fmax, speeds |-> speeds]

ShippedMachines == <<
    VariSpeedMachine(<<"Sharp", " ", "LMV", " ", "CNC", " ", "Mill">>, 30, 60000, 120000),
    SteppedMachine(<<"Bridgeport", " ", "J-Head", " ", "Mill">>, 10, 30000,
                   <<3200, 5400, 8400, 13000, 26400, 44600, 70000, 108800>>) >>

(***************************************************************************)
(* The per-tool and per-material computations.                             *)
(***************************************************************************)
\* The length of np.arange(0.0, stop, 0.01) is the ceiling of the double
\* quotient stop / 0.01.  When the stop value is a whole number c of
\* hundredths, the doubles 1.5 * diameter + 0.01 and its quotient by 0.01
\* round to c exactly, except for 16 <= stop with c < 2048 and for
\* 2048 <= stop with c < 262144, where the quotient is the next double
\* above c and the ceiling is c + 1 (diameters up to 10^6 inch).
double_quotient_above(c) ==
    (1600 <= c /\ c < 2048) \/ (204800 <= c /\ c < 262144)

\* np.arange(0.0, MAX_DOC_AXIAL * diameter + 0.01, 0.01): the samples
\* 0.00, 0.01, ...; empty when the stop value is not positive.
arange_doc_axial(tool) ==
    LET stop16 == MAX_DOC_AXIAL * 10 * tool.diameter + 16  \* 1/1600 inch
        n == IF stop16 <= 0 THEN 0
             ELSE IF stop16 % 16 = 0 /\ double_quotient_above(stop16 \div 16)
             THEN stop16 \div 16 + 1
             ELSE CeilDiv(stop16, 16)
    IN  [i \in 1..n |-> i - 1]

\* tool['material'] is 'Carbide': CPython keeps one object per equal string
\* constant of a module, so the identity test agrees with equality.
is_Carbide(tool) == tool.material = "Carbide"

\* Variant in which the multiplication updates the stored quantity in
\* place, as it would for an array magnitude.
scale_SFM_in_place(mats, k, tool) ==
    LET scaled == IF tool.material = "Carbide"
                  THEN (mats[k].SFM * 25) \div 10
                  ELSE mats[k].SFM
    IN  [SFM |-> 2 * scaled, materials |-> [mats EXCEPT ![k].SFM = scaled]]

\* SFM = material_properties['SFM'], then SFM *= 2.5 for a carbide tool.
\* The magnitude of the quantity is a scalar, for which pint's in-place
\* multiplication builds a new quantity and rebinds the name: the table
\* entry keeps its value.  The table entry is in 1/10 ft/min and the factor
\* in tenths, their product in 1/100 ft/min; the local is in 1/20 ft/min.
scale_SFM(mats, k, tool) ==
    [SFM |-> IF is_Carbide(tool)
             THEN (mats[k].SFM * CARBIDE_SFM_FACTOR) \div 5
             ELSE mats[k].SFM * 2,
     materials |-> mats]

\* SFM / (pi * diameter / rev), read in rev/min (12 inch per foot), for a
\* diameter that is not zero.  In units of 0.05 rev/min the ideal speed is
\* 192 * SFM / (pi * diameter); with f the floor of its magnitude, it lies
\* strictly between f and f + 1 (it is irrational unless SFM is zero), and
\* the result is the point 2 * f + 1 of the 1/40 rev/min grid between them.
spindle_speed(sfm, tool) ==
    LET f == floor_of_quotient_by_pi(192 * Abs(sfm), Abs(tool.diameter))
    IN  IF sfm = 0 THEN 0
        ELSE IF (sfm > 0) = (tool.diameter > 0) THEN 2 * f + 1 ELSE -(2 * f + 1)

\* Whether closest_machine_speed returned its argument, the ideal speed of
\* line 191, unchanged (lines 155-156).
speed_is_ideal(sfm, tool, s, machine) ==
    ~("speeds" \in DOMAIN machine) /\ s = spindle_speed(sfm, tool)

\* 0.005 * diameter * speed * (tooth_count / rev), in 1/1280000 inch/min.
\* With a table speed the product is exact: (5/1000) * (diameter/16) *
\* (speed/40) * tooth_count is 2 * 5 * diameter * speed * tooth_count units.
\* With the ideal speed SFM / (pi * diameter) the diameter cancels: in
\* units of 1/640000 inch/min the product is 1920 * SFM * tooth_count / pi,
\* irrational unless zero; with f the floor of its magnitude the result is
\* the point 2 * f + 1 between f and f + 1.
feed_product(sfm, tool, s, machine) ==
    IF speed_is_ideal(sfm, tool, s, machine)
    THEN LET a == 1920 * sfm * tool.tooth_count
             f == floor_of_quotient_by_pi(Abs(a), 1)
         IN  IF a = 0 THEN 0 ELSE IF a > 0 THEN 2 * f + 1 ELSE -(2 * f + 1)
    ELSE 2 * CHIP_LOAD * tool.diameter * s * tool.tooth_count

\* feed units (1/1280000 inch/min) per unit of feed_max (1e-3 inch/min).
FEED_PER_FEED_MAX == 1280

\* Variant without the feed clamp.
clamp_feed_missing(f, machine) == f

\* if feed > machine['feed_max']: feed = machine['feed_max'] (feed_max read
\* in the unit of the feed).
clamp_feed(f, machine) ==
    IF f > FEED_PER_FEED_MAX * machine.feed_max
    THEN FEED_PER_FEED_MAX * machine.feed_max
    ELSE f

target_spindle_horsepower(machine) ==
    machine.horsepower * machine_horsepower_multiplier * machine_efficiency

\* Whether the magnitude of `feed` is a numpy scalar: the elements of the
\* 'speeds' array quantity are numpy scalars and so is the product of line
\* 194 computed from one; vari_speed_max, the ideal speed and feed_max have
\* Python magnitudes.
feed_is_numpy(sfm, tool, s, machine) ==
    /\ "speeds" \in DOMAIN machine
    /\ ~(feed_product(sfm, tool, s, machine)
            > FEED_PER_FEED_MAX * machine.feed_max)

\* MRR / feed with a Python float feed of zero raises ZeroDivisionError.
mrr_over_feed_raises(fd, numpy) == fd = 0 /\ ~numpy

\* The sign bit of a zero product of line 194: 0.005 * diameter * speed *
\* tooth_count is -0.0 when an odd number of its factors are negative (an
\* integer zero factor counts as positive).
feed_zero_is_negative(tool, s) ==
    ((tool.diameter < 0) # (s < 0)) # (tool.tooth_count < 0)

\* MRR / feed, in 1e-5 inch^2.  A numpy feed of zero gives inf, -inf or nan
\* (with a RuntimeWarning) instead of raising; the sign of the infinity is
\* the sign of MRR times the sign of the zero.
mrr_over_feed(mrr, fd, negative_zero) ==
    IF fd = 0
    THEN IF mrr = 0 THEN NaN
         ELSE IF (mrr > 0) # negative_zero THEN PosInf ELSE NegInf
    ELSE Finite(ScaledQuot(mrr * 128, 5, fd))

\* The sign of an infinite array element after division by the diameter.
over_diameter(x, tool) ==
    IF tool.diameter > 0 THEN x ELSE IF x = PosInf THEN NegInf ELSE PosInf

\* One element of MRR / feed / doc_axial, then of
\* 100 * (doc_radial / diameter).to(dimensionless); q is MRR / feed and the
\* depth is never negative.
stepover_at(q, depth, tool) ==
    CASE q.cls = "nan" -> NaN
      [] q.cls \in {"inf", "-inf"} -> over_diameter(q, tool)
      [] OTHER ->
           IF depth = 0
           THEN IF q.val = 0 THEN NaN
                ELSE over_diameter(IF q.val > 0 THEN PosInf ELSE NegInf, tool)
           ELSE Finite(MulQuot(ScaledQuot(q.val, 1, depth), 16, 10 * tool.diameter))

stepover_curve(q, depths, tool) ==
    [i \in 1..Len(depths) |-> stepover_at(q, depths[i], tool)]

\* Variant that skips the envelope resolution of line 192.
achieved_speed_unresolved(sfm, tool, machine) == spindle_speed(sfm, tool)

\* Lines 191-192: the ideal speed, then speed = closest_machine_speed(...).
achieved_speed(sfm, tool, machine) ==
    closest_machine_speed(spindle_speed(sfm, tool), machine)

\* Lines 194-196: the feed at the achieved speed, clamped.
achieved_feed(sfm, tool, s, machine) ==
    clamp_feed(feed_product(sfm, tool, s, machine), machine)

\* The body of the material loop (lines 181-214) for materials entry k.
\* `old` holds the module-level names as the previous iteration left them;
\* a name keeps its old value when an exception is raised before its
\* assignment.
loop_body(machine, tool, mats, k, depths, old) ==
    LET s == scale_SFM(mats, k, tool)
        props == s.materials[k]
        ideal == spindle_speed(s.SFM, tool)
        sp == achieved_speed(s.SFM, tool, machine)
        fd == achieved_feed(s.SFM, tool, sp, machine)
        mrr == Quot(target_spindle_horsepower(machine), props.unit_power)
        base == [old EXCEPT !.SFM = s.SFM, !.materials = s.materials]
    IN  IF tool.diameter = 0
        THEN [base EXCEPT !.err = "ZeroDivisionError"]
        ELSE IF closest_machine_speed_raises(machine)
        THEN [base EXCEPT !.err = "ValueError", !.ideal_speed = ideal,
                          !.speed = ideal]
        ELSE IF props.unit_power = 0
        THEN [base EXCEPT !.err = "ZeroDivisionError", !.ideal_speed = ideal,
                          !.speed = sp, !.feed = fd]
        ELSE IF mrr_over_feed_raises(fd, feed_is_numpy(s.SFM, tool, sp, machine))
        THEN [base EXCEPT !.err = "ZeroDivisionError", !.ideal_speed = ideal,
                          !.speed = sp, !.feed = fd, !.MRR = mrr]
        ELSE [base EXCEPT !.ideal_speed = ideal, !.speed = sp, !.feed = fd,
                          !.MRR = mrr,
                          !.stepover = stepover_curve(
                              mrr_over_feed(mrr, fd, feed_zero_is_negative(tool, sp)),
                              depths, tool)]

\* ax.plot(doc_axial, stepover, label=...): the line added to the figure.
plot_line(name, r, depths) ==
    [material_name |-> name, speed |-> r.speed, feed |-> r.feed,
     doc_axial |-> depths, stepover |-> r.stepover]

(***************************************************************************)
(* The script.                                                             *)
(***************************************************************************)
Locals ==
    [err |-> err, SFM |-> SFM, materials |-> materials,
     ideal_speed |-> ideal_speed, speed |-> speed, feed |-> feed,
     MRR |-> MRR, stepover |-> stepover]

\* machine['name'].replace(' ', '_'): every space becomes an underscore.
machine_filename_suffix(machine) ==
    [i \in 1..Len(machine.name) |->
        IF machine.name[i] = " " THEN "_" ELSE machine.name[i]]

\* Leaving the block `with PdfPages(...) as pdf`, at its end or by an
\* exception, closes the PDF: the file named after the machine holds the
\* pages saved so far and replaces a file of the same name.
close_pdf(fs, machine, pages) ==
    (machine_filename_suffix(machine) :> pages) @@ fs

\* for machine in machines: ... with PdfPages(...) as pdf:
NextMachine ==
    /\ pc = "machines"
    /\ mi < Len(machines)
    /\ mi' = mi + 1
    /\ ti' = 0
    /\ pdf' = <<>>
    /\ pc' = "tools"
    /\ UNCHANGED <<err, machines, tools, materials, ki, doc_axial, SFM,
                   ideal_speed, speed, feed, MRR, stepover, fig, files>>

\* The machine loop is exhausted: the script ends.
Finish ==
    /\ pc = "machines"
    /\ mi = Len(machines)
    /\ pc' = "done"
    /\ UNCHANGED <<err, machines, tools, materials, mi, ti, ki, doc_axial,
                   SFM, ideal_speed, speed, feed, MRR, stepover, fig, pdf,
                   files>>

\* for tool in tools: doc_axial = ...; fig, ax = plt.subplots(...)
NextTool ==
    /\ pc = "tools"
    /\ ti < Len(tools)
    /\ ti' = ti + 1
    /\ ki' = 0
    /\ doc_axial' = arange_doc_axial(tools[ti + 1])
    /\ fig' = <<>>
    /\ pc' = "materials"
    /\ UNCHANGED <<err, machines, tools, materials, mi, SFM, ideal_speed,
                   speed, feed, MRR, stepover, pdf, files>>

\* The tool loop is exhausted: the with block closes the PDF.
ClosePdf ==
    /\ pc = "tools"
    /\ ti = Len(tools)
    /\ pc' = "machines"
    /\ files' = close_pdf(files, machines[mi], pdf)
    /\ UNCHANGED <<err, machines, tools, materials, mi, ti, ki, doc_axial,
                   SFM, ideal_speed, speed, feed, MRR, stepover, fig, pdf>>

\* for material_name, material_properties in materials.items(): one pass
\* of the body.  An exception ends the script through the with block.
NextMaterial ==
    /\ pc = "materials"
    /\ ki < Len(materials)
    /\ LET r == loop_body(machines[mi], tools[ti], materials, ki + 1,
                          doc_axial, Locals)
       IN  /\ err' = r.err
           /\ SFM' = r.SFM
           /\ materials' = r.materials
           /\ ideal_speed' = r.ideal_speed
           /\ speed' = r.speed
           /\ feed' = r.feed
           /\ MRR' = r.MRR
           /\ stepover' = r.stepover
           /\ fig' = IF r.err = "none"
                     THEN Append(fig, plot_line(materials[ki + 1].name, r, doc_axial))
                     ELSE fig
           /\ pc' = IF r.err = "none" THEN "materials" ELSE "error"
           /\ files' = IF r.err = "none" THEN files
                       ELSE close_pdf(files, machines[mi], pdf)
    /\ ki' = ki + 1
    /\ UNCHANGED <<machines, tools, mi, ti, doc_axial, pdf>>

\* The material loop is exhausted: legend, title, ticks, pdf.savefig(fig).
\* For a diameter of zero the right-axis ticks of lines 262-263 are
\* np.arange(0, 0.0, step=0.0), whose length cannot be computed: the
\* statement raises before the page is saved.
SaveFig ==
    /\ pc = "materials"
    /\ ki = Len(materials)
    /\ IF tools[ti].diameter = 0
       THEN /\ err' = "ZeroDivisionError"
            /\ pc' = "error"
            /\ pdf' = pdf
            /\ files' = close_pdf(files, machines[mi], pdf)
       ELSE /\ err' = err
            /\ pc' = "tools"
            /\ pdf' = Append(pdf, fig)
            /\ files' = files
    /\ UNCHANGED <<machines, tools, materials, mi, ti, ki, doc_axial,
                   SFM, ideal_speed, speed, feed, MRR, stepover, fig>>

Next ==
    \/ NextMachine
    \/ NextTool
    \/ NextMaterial
    \/ SaveFig
    \/ ClosePdf
    \/ Finish

no_files == [name \in {} |-> <<>>]

\* The script starts with the three tables defined and no loop entered.
Start(ms, ts, mats) ==
    /\ pc = "machines"
    /\ err = "none"
    /\ machines = ms
    /\ tools = ts
    /\ materials = mats
    /\ mi = 0
    /\ ti = 0
    /\ ki = 0
    /\ doc_axial = <<>>
    /\ SFM = 0
    /\ ideal_speed = 0
    /\ speed = 0
    /\ feed = 0
    /\ MRR = 0
    /\ stepover = <<>>
    /\ fig = <<>>
    /\ pdf = <<>>
    /\ files = no_files

(***************************************************************************)
(* Configurations.  The tables are meant to be edited ("Define your tools  *)
(* here"): besides the shipped tables the script is run on every one-row   *)
(* configuration drawn from the bounded sets below.                        *)
(***************************************************************************)
MaxDiameter == 3
MaxTeeth == 2

ToolMaterials == {"HSS/Cobalt", "Carbide"}
SFMChoices == {300, 3000}
UnitPowerChoices == {4, 26}

SmallTools ==
    {Tool(d, n, m) : d \in 1..MaxDiameter, n \in 1..MaxTeeth, m \in ToolMaterials}

SmallMaterials ==
    {Material("Stock", sfm, up) : sfm \in SFMChoices, up \in UnitPowerChoices}

SmallMachines ==
    {VariSpeedMachine(<<"Vari">>, hp, fmax, smax) :
        hp \in {0, 10, 30}, fmax \in {2000, 60000}, smax \in {20000, 120000}}
    \cup
    {SteppedMachine(<<"Stepped">>, 10, fmax, sp) :
        fmax \in {2000, 30000}, sp \in {<<26400, 108800>>, <<108800, 26400>>}}

\* Table rows the data model rules out: a diameter or tooth count that is
\* not positive, a specific cutting power that is not positive.
EditedTools ==
    {Tool(d, n, m) : d \in -1..MaxDiameter, n \in -1..MaxTeeth, m \in ToolMaterials}

EditedMaterials ==
    {Material("Stock", sfm, up) :
        sfm \in SFMChoices, up \in UnitPowerChoices \cup {-4, 0}}

valid_tool(tool) == tool.diameter > 0 /\ tool.tooth_count > 0
valid_material(props) == props.unit_power > 0

\* Tables of up to MaxRows rows, in every order.  The tools list may hold
\* the same row twice, and two machines that differ only in their name are
\* evaluated at different places of the run.  The keys of the materials
\* dict are distinct; the machines are given distinct file names, one PDF
\* each.
MaxRows == 2

OrderMachines ==
    {VariSpeedMachine(<<"Vari", " ", "A">>, 30, 60000, 120000),
     VariSpeedMachine(<<"Vari", "_", "B">>, 30, 60000, 120000),
     SteppedMachine(<<"Stepped">>, 10, 30000, <<26400, 108800>>)}

OrderTools == {Tool(2, 2, "Carbide"), Tool(2, 2, "HSS/Cobalt")}

OrderMaterials == {Material("Stock A", 300, 4), Material("Stock B", 750, 26)}

Tables(rows) == UNION {[1..n -> rows] : n \in 1..MaxRows}

distinct_names(table) ==
    \A i, j \in 1..Len(table) : table[i].name = table[j].name => i = j

distinct_files(table) ==
    \A i, j \in 1..Len(table) :
        machine_filename_suffix(table[i]) = machine_filename_suffix(table[j])
            => i = j

Init ==
    \/ Start(ShippedMachines, ShippedTools, ShippedMaterials)
    \/ \E m \in SmallMachines, t \in SmallTools, k \in SmallMaterials :
          Start(<<m>>, <<t>>, <<k>>)
    \/ \E ms \in Tables(OrderMachines), ts \in Tables(OrderTools),
           mats \in Tables(OrderMaterials) :
          /\ distinct_files(ms)
          /\ distinct_names(mats)
          /\ Start(ms, ts, mats)

Spec == Init /\ [][Next]_vars

InitEdited ==
    \/ \E m \in SmallMachines, t \in EditedTools, k \in EditedMaterials :
          Start(<<m>>, <<t>>, <<k>>)
    \/ \E m \in SmallMachines, t \in EditedTools : Start(<<m>>, <<t>>, <<>>)

SpecEdited == InitEdited /\ [][Next]_vars

(***************************************************************************)
(* closest_machine_speed on its own: every ideal speed against every       *)
(* continuous ceiling and every ordering of every small speed list.        *)
(***************************************************************************)
MaxRpm == 4
MaxSpeeds == 3

SpeedLists == UNION {[1..n -> 0..MaxRpm] : n \in 0..MaxSpeeds}

ResolverMachines ==
    {VariSpeedMachine(<<"Vari">>, 10, 60000, c) : c \in 0..MaxRpm}
    \cup {SteppedMachine(<<"Stepped">>, 10, 30000, sp) : sp \in SpeedLists}

InitResolve ==
    \E m \in ResolverMachines, s \in 0..MaxRpm :
        /\ pc = "call"
        /\ err = "none"
        /\ machines = <<m>>
        /\ tools = <<>>
        /\ materials = <<>>
        /\ mi = 1
        /\ ti = 0
        /\ ki = 0
        /\ doc_axial = <<>>
        /\ SFM = 0
        /\ ideal_speed = s
        /\ speed = s
        /\ feed = 0
        /\ MRR = 0
        /\ stepover = <<>>
        /\ fig = <<>>
        /\ pdf = <<>>
        /\ files = no_files

\* speed = closest_machine_speed(speed, machine)
Resolve ==
    /\ pc = "call"
    /\ IF closest_machine_speed_raises(machines[mi])
       THEN /\ err' = "ValueError"
            /\ pc' = "error"
            /\ speed' = speed
       ELSE /\ err' = err
            /\ pc' = "return"
            /\ speed' = closest_machine_speed(ideal_speed, machines[mi])
    /\ UNCHANGED <<machines, tools, materials, mi, ti, ki, doc_axial, SFM,
                   ideal_speed, feed, MRR, stepover, fig, pdf, files>>

NextResolve == Resolve

SpecResolve == InitResolve /\ [][NextResolve]_vars

(***************************************************************************)
(* Properties.                                                             *)
(***************************************************************************)
\* A pass of the material loop body has just completed for the triple
\* (machines[mi], tools[ti], materials[ki]); its line is fig[ki].
Evaluated == pc = "materials" /\ ki >= 1

\* closest_machine_speed has returned (resolver specification).
Returned == pc = "return"

Continuous(machine) == "speeds" \notin DOMAIN machine

Distance(x) == Abs(x - ideal_speed)

\* C1: on a machine without a 'speeds' entry the resolved speed is at most
\* vari_speed_max, and is the ideal speed itself whenever the ideal speed
\* is at most vari_speed_max.
C1_ContinuousClampDown ==
    (Returned /\ Continuous(machines[mi])) =>
        /\ speed <= machines[mi].vari_speed_max
        /\ (ideal_speed <= machines[mi].vari_speed_max => speed = ideal_speed)

C1_Witness ==
    /\ Returned
    /\ Continuous(machines[mi])
    /\ ideal_speed > machines[mi].vari_speed_max
    /\ speed = machines[mi].vari_speed_max

\* C2: on a machine with a non-empty 'speeds' list the resolved speed is an
\* element of the list and no element is strictly closer to the ideal speed.
C2_DiscreteNearest ==
    (Returned /\ ~Continuous(machines[mi])) =>
        LET speeds == machines[mi].speeds
        IN  /\ \E i \in 1..Len(speeds) : speeds[i] = speed
            /\ \A j \in 1..Len(speeds) : Distance(speeds[j]) >= Distance(speed)

C2_Witness ==
    /\ Returned
    /\ ~Continuous(machines[mi])
    /\ LET speeds == machines[mi].speeds
       IN  /\ Len(speeds) >= 2
           /\ speed # speeds[1]
           /\ speed > ideal_speed
           /\ \E j \in 1..Len(speeds) :
                 speeds[j] < speed /\ Distance(speeds[j]) > Distance(speed)

\* C3: among the elements of the 'speeds' list at the same distance from
\* the ideal speed as the resolved speed, the resolved speed is the one
\* that comes first in the list.
C3_FirstOnTie ==
    (Returned /\ ~Continuous(machines[mi])) =>
        LET speeds == machines[mi].speeds
        IN  \A j \in 1..Len(speeds) :
                Distance(speeds[j]) = Distance(speed) =>
                    \E i \in 1..j : speeds[i] = speed

C3_Witness ==
    /\ Returned
    /\ ~Continuous(machines[mi])
    /\ LET speeds == machines[mi].speeds
       IN  \E i, j \in 1..Len(speeds) :
              /\ i < j
              /\ speeds[i] # speeds[j]
              /\ Distance(speeds[i]) = Distance(speeds[j])
              /\ \A n \in 1..Len(speeds) : Distance(speeds[n]) >= Distance(speeds[i])
              /\ speed = speeds[i]

\* C4: after every evaluated triple the feed, which is the feed the
\* stepover was divided by and the feed reported on the plotted line, is at
\* most the machine's feed_max.
C4_FeedAtMostFeedMax ==
    Evaluated =>
        /\ feed <= FEED_PER_FEED_MAX * machines[mi].feed_max
        /\ fig[ki].feed = feed

C4_Witness ==
    /\ Evaluated
    /\ 10 * tools[ti].diameter * speed * tools[ti].tooth_count
          > FEED_PER_FEED_MAX * machines[mi].feed_max
    /\ feed = FEED_PER_FEED_MAX * machines[mi].feed_max

\* C5: no plotted sample has an axial depth that is zero or negative, and
\* no plotted stepover value is non-finite.
C5_NoZeroDepthSample ==
    Evaluated =>
        \A i \in 1..Len(fig[ki].doc_axial) :
            /\ fig[ki].doc_axial[i] > 0
            /\ fig[ki].stepover[i].cls = "finite"

\* C6: a tool whose diameter or tooth count is not positive is rejected with
\* InvalidToolGeometry, a material whose unit_power is not positive with
\* InvalidMaterialSpec, and no line is produced for such a triple.
C6_InvalidConfigurationRejected ==
    (pc \in {"materials", "error"} /\ ki >= 1) =>
        /\ ~valid_tool(tools[ti]) => (err = "InvalidToolGeometry" /\ fig = <<>>)
        /\ (valid_tool(tools[ti]) /\ ~valid_material(materials[ki])) =>
              (err = "InvalidMaterialSpec" /\ fig = <<>>)

\* The filter of the depth grid the specification describes: a depth that
\* is zero or negative is dropped.
positive_depth(depth) == depth > 0

\* C7: the plotted stepover sequence is as long as the filtered depth
\* sequence (the generated grid without its zero and negative depths), its
\* i-th value is the stepover at the i-th filtered depth, and the filtered
\* depths are strictly ascending.
C7_StepoverAlignedWithFilteredDepths ==
    Evaluated =>
        LET line == fig[ki]
            filtered == SelectSeq(line.doc_axial, positive_depth)
            n == Len(filtered)
        IN  /\ Len(line.stepover) = n
            /\ \A i \in 1..n :
                  line.stepover[i] =
                      stepover_at(mrr_over_feed(MRR, feed,
                                                feed_zero_is_negative(tools[ti], speed)),
                                  filtered[i], tools[ti])
            /\ \A i \in 1..n : \A j \in 1..n :
                  i < j => filtered[i] < filtered[j]

\* C8: within one evaluated triple, a sample at a smaller axial depth never
\* has a smaller stepover than a sample at a larger axial depth: for depths
\* a < b, stepover(a) >= stepover(b).
C8_StepoverNonIncreasing ==
    Evaluated =>
        LET line == fig[ki]
            n == Len(line.doc_axial)
        IN  \A i \in 1..n : \A j \in 1..n :
                line.doc_axial[i] < line.doc_axial[j] =>
                    Geq(line.stepover[i], line.stepover[j])

\* The lines drawn so far for tool b of machine a: the current figure, a
\* page of the open PDF, or a page of the closed PDF of an earlier machine.
page_lines(a, b) ==
    IF a = mi /\ b = ti THEN fig
    ELSE IF a = mi THEN pdf[b]
    ELSE files[machine_filename_suffix(machines[a])][b]

page_count(a) ==
    IF a = mi THEN ti ELSE Len(files[machine_filename_suffix(machines[a])])

\* The triples evaluated so far, as positions <<a, b, c>> in the machines,
\* tools and materials tables.
Evaluations ==
    UNION {UNION {{<<a, b, c>> : c \in 1..Len(page_lines(a, b))} :
                      b \in 1..page_count(a)} :
               a \in 1..mi}

\* Two positions hold the same machine, tool and material (the names of the
\* machine and of the material do not enter the calculation).
same_triple(x, y) ==
    /\ [machines[x[1]] EXCEPT !.name = <<>>] = [machines[y[1]] EXCEPT !.name = <<>>]
    /\ tools[x[2]] = tools[y[2]]
    /\ [materials[x[3]] EXCEPT !.name = ""] = [materials[y[3]] EXCEPT !.name = ""]

line_at(x) == page_lines(x[1], x[2])[x[3]]

same_values(l1, l2) ==
    /\ l1.speed = l2.speed
    /\ l1.feed = l2.feed
    /\ l1.doc_axial = l2.doc_axial
    /\ l1.stepover = l2.stepover

\* Wherever in the run the same triple was evaluated, whatever was
\* evaluated before it, its line has the same speed, feed and stepovers.
IndependentLines ==
    \A x \in Evaluations : \A y \in Evaluations :
        same_triple(x, y) => same_values(line_at(x), line_at(y))

\* C9: no step of the script changes the machine, tool or material table;
\* after every step, any two evaluations of the same triple, at whatever
\* places of the run, have produced the same speed, feed and stepovers; and
\* the surface speed a pass computes is the stored base value of the
\* material (twice the table entry, in 1/20 ft/min), times 2.5 for a
\* carbide tool.
C9_EvaluationsIndependent ==
    [][/\ machines' = machines
       /\ tools' = tools
       /\ materials' = materials
       /\ IndependentLines'
       /\ (pc = "materials" /\ ki' = ki + 1) =>
             SFM' = IF tools[ti].material = "Carbide"
                    THEN 5 * materials[ki + 1].SFM
                    ELSE 2 * materials[ki + 1].SFM]_vars

\* The same carbide triple evaluated on two machines, a different tool and
\* a different material evaluated in between, with the same line.
C9_Witness ==
    \E x \in Evaluations : \E y \in Evaluations : \E z \in Evaluations :
        /\ x[1] < y[1]
        /\ same_triple(x, y)
        /\ tools[x[2]].material = "Carbide"
        /\ z[1] = x[1]
        /\ z[2] > x[2]
        /\ tools[z[2]] # tools[x[2]]
        /\ materials[z[3]].SFM # materials[x[3]].SFM
        /\ Continuous(machines[x[1]])
        /\ line_at(x).speed < machines[x[1]].vari_speed_max
        /\ same_values(line_at(x), line_at(y))

====
